---- MODULE Spec2Model ----
(***************************************************************************)
(* Model of drawling's reference-resolution and infer engine (src/lib.rs). *)
(*                                                                         *)
(* Numbers.  Every stored literal is an integer-valued f64: steps are      *)
(* created with 0.0, an infer commit stores mouse_pos().round(), and a     *)
(* drag adds an integer pixel delta.  A stored literal is kept as that     *)
(* integer.  Resolved coordinates are kept in units of 1/Scale so that the *)
(* midpoint's division by 2.0 is exact (as it is in f64 for these values), *)
(* and mouse positions are kept in half units (so 11 is 5.5).              *)
(*                                                                         *)
(* Signals.  A RwSignal is a handle; two handles are equal iff they name   *)
(* the same signal.  A point slot's handle is <<sig, field>> where sig is  *)
(* the creation key of its step, a number slot's is                        *)
(* <<coll, sig, field, coord>>.                                            *)
(*                                                                         *)
(* Panics.  panic!, todo!, expect and stack exhaustion abort the running   *)
(* handler: the assignments made before it stay, those after it are not    *)
(* made, and no further handler runs.                                      *)
(***************************************************************************)
EXTENDS Integers, Sequences, FiniteSets, TLC

VARIABLES
    steps,               \* RwSignal<Vec<Step>>, lib.rs:778
    datas,               \* RwSignal<Vec<Data>>, lib.rs:776
    infer_target,        \* RwSignal<Option<InferTarget>>, lib.rs:781
    mouse_pos,           \* create_signal(cx, Point::default()), lib.rs:599
    hover_infer_target,  \* lib.rs:623
    snap_points,         \* Memo<Vec<DataRef>>, lib.rs:663
    panicked,            \* "none", or the panic that aborted the program
    op,                  \* the handler that ran last, its argument, and
                         \* whether a target was armed when it ran
    nops,                \* the number of handlers that have run
    issued               \* the ids given to steps so far, in order

vars == <<steps, datas, infer_target, mouse_pos, hover_infer_target,
          snap_points, panicked, op, nops, issued>>

----------------------------------------------------------------------------
\* Bounds of the model.

\* The number of handler runs (user events) explored from the start.
MaxOps == 5

\* dist < 5.0, lib.rs:740
Threshold == 5

\* Resolved coordinates are in units of 1/Scale: a chain of midpoints passes
\* through each step at most once, there are at most MaxOps steps, and each
\* halves once.
Scale == 2 ^ MaxOps

\* Pointer positions offered to mousemove, in half units: (0,0), (5,0) and
\* (5.5,0).
MousePositions == {<<0, 0>>, <<10, 0>>, <<11, 0>>}

\* Values a drag can leave in a literal number.
EditValues == {0, 8}

----------------------------------------------------------------------------
\* Values.

\* ResolvableTo::T(n) for a number, lib.rs:26-32
NumT(v) == [tag |-> "T", v |-> v]

\* ResolvableTo::Ref(DataRef(path)), lib.rs:26-32
Ref(path) == [tag |-> "Ref", path |-> path]

\* ResolvableTo::T(PointSignal {x, y}), lib.rs:4-7
PointT(x, y) == [tag |-> "T", x |-> x, y |-> y]

\* The literal point every new step and data point starts with, lib.rs:793-796
ZeroPoint == PointT(NumT(0), NumT(0))

\* Option<InferTarget>, lib.rs:295-298
NoTarget == [kind |-> "None", sig |-> <<>>]
TargetPoint(sig) == [kind |-> "Point", sig |-> sig]
TargetNumber(sig) == [kind |-> "Number", sig |-> sig]

\* Result of a resolution: the point (or, for a number, x), or the panic.
Ok(x, y) == [err |-> "none", x |-> x, y |-> y]
Err(e) == [err |-> e, x |-> 0, y |-> 0]

PanicInvalidStepId == "Invalid step id"
PanicTodo == "not yet implemented"
PanicInvalidProp == "Invalid prop name"
PanicStackOverflow == "stack overflow"

----------------------------------------------------------------------------
\* Resolution, lib.rs:34-187.

\* The point slots of a step
Fields(s) == IF s.kind = "DrawPoint" THEN {"point"} ELSE {"start", "end"}

\* steps.iter().find(|d| d.id == step_id): the first step with that id, 0 if none
FindStep(st, id) ==
    LET I == {i \in 1..Len(st) : st[i].id = id}
    IN IF I = {} THEN 0 ELSE CHOOSE i \in I : \A j \in I : i <= j

\* The requests the resolution answers: slot.get().resolve(cx) for point
\* slot `field` of step st[i], value.resolve(cx) for a point value, and the
\* two impls for DataRef, lib.rs:90-187
ReqSlot(i, field) == [what |-> "Slot", i |-> i, field |-> field]
ReqPointValue(p) == [what |-> "PointValue", val |-> p]
ReqPointRef(path) == [what |-> "PointRef", path |-> path]
ReqNumberRef(path) == [what |-> "NumberRef", path |-> path]

\* One coordinate of a resolved point
Coord(r, c) == IF r.err # "none" THEN r ELSE Ok(IF c = "x" THEN r.x ELSE r.y, 0)

\* The requests the resolve of a number value makes
NumberSubRequests(n) == IF n.tag = "T" THEN {} ELSE {ReqNumberRef(n.path)}

\* The requests the resolve of a point value makes
PointSubRequests(p) ==
    IF p.tag = "T"
    THEN NumberSubRequests(p.x) \cup NumberSubRequests(p.y)
    ELSE {ReqPointRef(p.path)}

\* The requests a request makes in turn (those its code can reach)
SubRequests(st, req) ==
    CASE req.what = "Slot" -> PointSubRequests(st[req.i][req.field])
    [] req.what = "PointValue" -> PointSubRequests(req.val)
    [] OTHER ->
        IF req.path[1] = "Step"
        THEN LET i == FindStep(st, req.path[2])
             IN IF i = 0 THEN {} ELSE {ReqSlot(i, f) : f \in Fields(st[i])}
        ELSE {}

\* A resolve of a number value that gives 0 for every literal
ResolveNumberValueZero(n, sub) ==
    IF n.tag = "T" THEN Ok(0, 0) ELSE sub[ReqNumberRef(n.path)]

\* impl ResolveToNumber for ResolvableTo<NumberSignal>, lib.rs:46-53; sub[q]
\* is the call that answers request q
ResolveNumberValue(n, sub) ==
    IF n.tag = "T" THEN Ok(n.v * Scale, 0) ELSE sub[ReqNumberRef(n.path)]

\* impl ResolveToPoint for ResolvableTo<PointSignal>, lib.rs:34-44
ResolvePointValueBody(p, sub) ==
    IF p.tag = "T"
    THEN LET rx == ResolveNumberValue(p.x, sub)
             ry == ResolveNumberValue(p.y, sub)
         IN IF rx.err # "none" THEN rx
            ELSE IF ry.err # "none" THEN ry
            ELSE Ok(rx.x, ry.x)
    ELSE sub[ReqPointRef(p.path)]

\* A "mid" that gives the start point
MidPointIsStart(start, end) == Ok(start.x, start.y)

\* "mid" => Point { x: (start.x + end.x) / 2.0, y: (start.y + end.y) / 2.0 },
\* lib.rs:169-172
MidPoint(start, end) == Ok((start.x + end.x) \div 2, (start.y + end.y) \div 2)

\* The bodies of the mutually recursive resolve functions; sub[q] is the
\* call that answers request q.  `stack` holds the slots whose resolution is
\* in progress: the recursion is a function of the (unchanging) state, so
\* entering a slot again never returns and ends in stack exhaustion.
ResolveBody(st, req, stack, sub) ==
    CASE req.what = "Slot" ->
        IF <<st[req.i].sig, req.field>> \in stack
        THEN Err(PanicStackOverflow)
        ELSE ResolvePointValueBody(st[req.i][req.field], sub)
    [] req.what = "PointValue" -> ResolvePointValueBody(req.val, sub)
    \* impl ResolveToNumber for DataRef, lib.rs:90-132
    [] req.what = "NumberRef" ->
        LET path == req.path
            i == FindStep(st, path[2])
        IN IF path[1] # "Step" THEN Err(PanicTodo)
           ELSE IF i = 0 THEN Err(PanicInvalidStepId)
           ELSE IF st[i].kind = "DrawPoint"
           THEN IF path[3] \in {"x", "y"}
                THEN Coord(sub[ReqSlot(i, "point")], path[3])
                ELSE Err(PanicTodo)
           ELSE IF path[3] \in {"start", "end"}
                THEN IF path[4] \in {"x", "y"}
                     THEN Coord(sub[ReqSlot(i, path[3])], path[4])
                     ELSE Err(PanicTodo)
                ELSE Err(PanicTodo)
    \* impl ResolveToPoint for DataRef, lib.rs:134-187
    [] req.what = "PointRef" ->
        LET path == req.path
            i == FindStep(st, path[2])
            start == sub[ReqSlot(i, "start")]
            end == sub[ReqSlot(i, "end")]
        IN IF path[1] # "Step" THEN Err(PanicTodo)
           ELSE IF i = 0 THEN Err(PanicInvalidStepId)
           ELSE IF st[i].kind = "DrawPoint"
           THEN IF path[3] = "self"
                THEN sub[ReqSlot(i, "point")]
                ELSE Err(PanicInvalidProp)
           ELSE IF start.err # "none" THEN start
           ELSE IF end.err # "none" THEN end
           ELSE IF path[3] = "start" THEN start
           ELSE IF path[3] = "mid" THEN MidPoint(start, end)
           ELSE IF path[3] = "end" THEN end
           ELSE Err(PanicInvalidProp)

\* resolve, lib.rs:34-187
RECURSIVE Resolve(_, _, _)
Resolve(st, req, stack) ==
    ResolveBody(st, req, stack,
                [q \in SubRequests(st, req) |->
                    Resolve(st, q, IF req.what = "Slot"
                                   THEN stack \cup {<<st[req.i].sig, req.field>>}
                                   ELSE stack)])

\* value.resolve(cx) of a ResolvableTo<PointSignal> read from a signal
ResolvePointValue(st, p) == Resolve(st, ReqPointValue(p), {})

\* ResolveToPoint::resolve(path, cx) of a DataRef
ResolvePointRef(st, path) == Resolve(st, ReqPointRef(path), {})

----------------------------------------------------------------------------
\* Snap points, lib.rs:189-216 and 663-666.

\* Step::snap_points
StepSnapPoints(s) ==
    IF s.kind = "DrawPoint"
    THEN << <<"Step", s.id, "self">> >>
    ELSE << <<"Step", s.id, "start">>, <<"Step", s.id, "mid">>, <<"Step", s.id, "end">> >>

RECURSIVE Flatten(_)
Flatten(ss) == IF ss = <<>> THEN <<>> ELSE Head(ss) \o Flatten(Tail(ss))

\* The memo's function: steps.iter().map(|s| s.snap_points()).flatten().collect()
SnapPointsMemo(st) == Flatten([i \in 1..Len(st) |-> StepSnapPoints(st[i])])

----------------------------------------------------------------------------
\* The redraw effect, lib.rs:668-765.

\* A rounding towards zero
RoundDown(h) == h \div 2

\* f64::round on a position >= 0 given in half units
Round(h) == (h + 1) \div 2

\* (spr.x - mouse_pos().x).powi(2) + (spr.y - mouse_pos().y).powi(2), in
\* units of 1/Scale^2
DistSq(r, mp) ==
    (r.x - mp[1] * (Scale \div 2)) ^ 2 + (r.y - mp[2] * (Scale \div 2)) ^ 2

\* The comparison with <= in place of <
NearOrAt(r, mp) == DistSq(r, mp) <= (Threshold * Scale) ^ 2

\* dist < 5.0, lib.rs:740
Near(r, mp) == DistSq(r, mp) < (Threshold * Scale) ^ 2

\* The least element of a non-empty set of integers
Least(S) == CHOOSE i \in S : \A j \in S : i <= j

\* The greatest element of a non-empty set of integers
Greatest(S) == CHOOSE i \in S : \A j \in S : j <= i

\* The free hover candidate, lib.rs:721-730
FreeHover(mp) == PointT(NumT(Round(mp[1])), NumT(Round(mp[2])))

\* What one run of the effect resolves: every point slot, every snap point
\* and the hover candidate
RedrawRequests(st, sp, mp, hv) ==
    UNION {{ReqPointValue(st[i][f]) : f \in Fields(st[i])} : i \in 1..Len(st)}
    \cup {ReqPointRef(sp[k]) : k \in 1..Len(sp)}
    \cup {ReqPointValue(Ref(sp[k])) : k \in 1..Len(sp)}
    \cup {ReqPointValue(hv), ReqPointValue(FreeHover(mp))}

\* The body of `for step in steps.iter()` for step i, lib.rs:675-701; res[q]
\* is the resolve call for q
DrawStep(res, st, i) ==
    IF st[i].kind = "DrawPoint"
    THEN IF st[i].point.tag = "T"
         THEN res[ReqPointValue(st[i].point)]
         ELSE Err(PanicTodo)
    ELSE LET start == res[ReqPointValue(st[i].start)]
         IN IF start.err # "none" THEN start
            ELSE res[ReqPointValue(st[i].end)]

\* The first panic of the step loop, lib.rs:673-703
DrawStepsErr(res, st) ==
    LET bad == {i \in 1..Len(st) : DrawStep(res, st, i).err # "none"}
    IN IF bad = {} THEN "none" ELSE DrawStep(res, st, Least(bad)).err

\* ResolveToPoint::resolve(sp, cx) for every snap point in turn, lib.rs:710
\* and 737: the step loop and the hit test read the same signals, so both
\* get the same points.  (Concatenation makes TLC compute the sequence once.)
ResolveSnapPoints(res, sp) ==
    [k \in 1..Len(sp) |-> res[ReqPointRef(sp[k])]] \o <<>>

\* The first panic of the snap point marker loop, lib.rs:705-717
DrawSnapPointsErr(spr) ==
    LET bad == {k \in 1..Len(spr) : spr[k].err # "none"}
    IN IF bad = {} THEN "none" ELSE spr[Least(bad)].err

\* A hit test that stops at the first snap point nearer than the threshold
HitTestFirst(spr, sp, mp) ==
    LET hits == {k \in 1..Len(sp) : Near(spr[k], mp)}
    IN IF hits = {} THEN FreeHover(mp) ELSE Ref(sp[Least(hits)])

\* The hover candidate an armed redraw computes, lib.rs:721-744: the rounded
\* mouse position, overwritten by every snap point nearer than the threshold
\* in turn, so the last one stays.
HitTest(spr, sp, mp) ==
    LET hits == {k \in 1..Len(sp) : Near(spr[k], mp)}
    IN IF hits = {} THEN FreeHover(mp) ELSE Ref(sp[Greatest(hits)])

\* The effect's body, lib.rs:668-765: the panic that ended it ("none" if it
\* completed) and the hover candidate it leaves.
RedrawBody(res, st, sp, inf, mp, hv) ==
    LET e1 == DrawStepsErr(res, st)
        spr == ResolveSnapPoints(res, sp)
        e2 == DrawSnapPointsErr(spr)
        hv2 == IF inf.kind # "None" THEN HitTest(spr, sp, mp) ELSE hv
    IN IF e1 # "none" THEN [panic |-> e1, hover |-> hv]
       ELSE IF e2 # "none" THEN [panic |-> e2, hover |-> hv]
       ELSE [panic |-> res[ReqPointValue(hv2)].err, hover |-> hv2]

\* One run of the effect
Redraw(st, sp, inf, mp, hv) ==
    RedrawBody([q \in RedrawRequests(st, sp, mp, hv) |-> Resolve(st, q, {})],
               st, sp, inf, mp, hv)

\* No run of the effect: it is not subscribed to what changed
NoRedraw == [panic |-> "none", hover |-> hover_infer_target]

\* What a run of the effect leaves
Redrawn(r) ==
    /\ hover_infer_target' = r.hover
    /\ panicked' = r.panic

----------------------------------------------------------------------------
\* The views: which buttons the step and data lists show, lib.rs:300-567.
\* Every element of steps and datas is taken to have its view.

\* The data_ref_path handed to the view of a point slot: InnerStepView gives
\* [Step, WithId(id)] (lib.rs:472-475), InnerStepViewDrawLine appends "start"
\* for the start slot (lib.rs:448-450) and "start" again for the end slot
\* (lib.rs:452-454).
SlotPath(s, field) ==
    IF field = "point" THEN <<"Step", s.id>> ELSE <<"Step", s.id, "start">>

\* The point slots shown by InnerStepViewDrawPoint in its unarmed branch
\* (lib.rs:387-411): the slot holds a literal and is not the armed target.
OpenPointViews(st, inf) ==
    {v \in [i : 1..Len(st), field : {"point", "start", "end"}] :
        /\ v.field \in Fields(st[v.i])
        /\ st[v.i][v.field].tag = "T"
        /\ inf # TargetPoint(<<st[v.i].sig, v.field>>)}

\* The ResolvableToNumberView instances: of the open point views
\* (lib.rs:400-402) and of the data points (lib.rs:538-540).
NumberViews(st, dt, inf) ==
    {[sig |-> <<"steps", st[v.i].sig, v.field, c>>,
      path |-> Append(SlotPath(st[v.i], v.field), c),
      val |-> st[v.i][v.field][c]] :
        v \in OpenPointViews(st, inf), c \in {"x", "y"}}
    \cup
    {[sig |-> <<"datas", dt[jc[1]].sig, "point", jc[2]>>,
      path |-> <<"Data", dt[jc[1]].id, jc[2]>>,
      val |-> dt[jc[1]].point[jc[2]]] :
        jc \in {jc \in (1..Len(dt)) \X {"x", "y"} : dt[jc[1]].kind = "Point"}}

----------------------------------------------------------------------------
\* Signal handles and writes through them.

\* A key no live step signal has: the steps' and the armed target's are live
FreshSig(keys) == Least({n \in 0..Cardinality(keys) : n \notin keys})

StepSigs(st, inf) ==
    {st[i].sig : i \in 1..Len(st)}
    \cup (IF inf.kind = "Point" THEN {inf.sig[1]} ELSE {})
    \cup (IF inf.kind = "Number" /\ inf.sig[1] = "steps" THEN {inf.sig[2]} ELSE {})

DataSigs(dt, inf) ==
    {dt[i].sig : i \in 1..Len(dt)}
    \cup (IF inf.kind = "Number" /\ inf.sig[1] = "datas" THEN {inf.sig[2]} ELSE {})

\* Whether a step in the vector owns the signal with this key: the redraw
\* effect reads, and so is subscribed to, exactly the signals of those steps
Subscribed(st, key) == \E i \in 1..Len(st) : st[i].sig = key

\* sig.set(val) on a point slot
SetPointSlot(st, sig, val) ==
    [i \in 1..Len(st) |->
        IF st[i].sig = sig[1] THEN [st[i] EXCEPT ![sig[2]] = val] ELSE st[i]]

\* sig.set(val) on a number slot of the collection `coll`
SetNumberSlot(seq, coll, sig, val) ==
    [i \in 1..Len(seq) |->
        IF sig[1] = coll /\ seq[i].sig = sig[2]
        THEN [seq[i] EXCEPT ![sig[3]][sig[4]] = val]
        ELSE seq[i]]

----------------------------------------------------------------------------
\* The handlers.

Ran(name, arg) ==
    [name |-> name, arg |-> arg, armed |-> infer_target.kind # "None"]

\* A handler runs: the program has not aborted
Handler(name, arg) ==
    /\ panicked = "none"
    /\ nops < MaxOps
    /\ nops' = nops + 1
    /\ op' = Ran(name, arg)

Init ==
    /\ steps = <<>>
    /\ datas = <<>>
    /\ infer_target = NoTarget
    /\ mouse_pos = <<0, 0>>
    /\ hover_infer_target = ZeroPoint
    /\ snap_points = <<>>
    /\ panicked = "none"
    /\ op = Ran("Init", <<>>)
    /\ nops = 0
    /\ issued = <<>>

\* steps.update(|s| s.push(Step { id: s.len(), .. })), lib.rs:786-822, with the
\* memo's and the effect's runs it causes
PushStep(data) ==
    LET st1 == Append(steps, [id |-> Len(steps),
                              sig |-> FreshSig(StepSigs(steps, infer_target))] @@ data)
        sp1 == SnapPointsMemo(st1)
    IN /\ steps' = st1
       /\ issued' = Append(issued, Len(steps))
       /\ snap_points' = sp1
       /\ Redrawn(Redraw(st1, sp1, infer_target, mouse_pos, hover_infer_target))
       /\ UNCHANGED <<datas, infer_target, mouse_pos>>

\* add_draw_line_step, lib.rs:786-808
AddDrawLineStep ==
    /\ Handler("AddDrawLineStep", <<>>)
    /\ PushStep([kind |-> "DrawLine", start |-> ZeroPoint, end |-> ZeroPoint])

\* add_draw_point_step, lib.rs:809-822
AddDrawPointStep ==
    /\ Handler("AddDrawPointStep", <<>>)
    /\ PushStep([kind |-> "DrawPoint", point |-> ZeroPoint])

\* s.retain(|s| s.id != id), lib.rs:507 and 577
RECURSIVE Retain(_, _)
Retain(s, id) ==
    IF s = <<>> THEN <<>>
    ELSE IF Head(s).id # id
         THEN <<Head(s)>> \o Retain(Tail(s), id)
         ELSE Retain(Tail(s), id)

\* The "x" button of StepView, lib.rs:505-509
RemoveStep(i) ==
    LET st1 == Retain(steps, steps[i].id)
        sp1 == SnapPointsMemo(st1)
    IN /\ Handler("RemoveStep", <<i>>)
       /\ steps' = st1
       /\ snap_points' = sp1
       /\ Redrawn(Redraw(st1, sp1, infer_target, mouse_pos, hover_infer_target))
       /\ UNCHANGED <<datas, infer_target, mouse_pos, issued>>

\* d.push(Data { id: d.len(), .. }), lib.rs:824-845: the effect reads no data
PushData(data) ==
    /\ datas' = Append(datas, [id |-> Len(datas),
                               sig |-> FreshSig(DataSigs(datas, infer_target))] @@ data)
    /\ UNCHANGED <<steps, infer_target, mouse_pos, hover_infer_target,
                   snap_points, panicked, issued>>

\* add_number_data, lib.rs:824-831
AddNumberData ==
    /\ Handler("AddNumberData", <<>>)
    /\ PushData([kind |-> "Number"])

\* add_point_data with the push going to the step list
AddPointDataIntoSteps ==
    /\ Handler("AddPointData", <<>>)
    /\ PushStep([kind |-> "DrawPoint", point |-> ZeroPoint])

\* add_point_data, lib.rs:832-845
AddPointData ==
    /\ Handler("AddPointData", <<>>)
    /\ PushData([kind |-> "Point", point |-> ZeroPoint])

\* The "x" button of DataView, lib.rs:575-579
RemoveData(i) ==
    /\ Handler("RemoveData", <<i>>)
    /\ datas' = Retain(datas, datas[i].id)
    /\ UNCHANGED <<steps, infer_target, mouse_pos, hover_infer_target,
                   snap_points, panicked, issued>>

\* A drag on the DraggableNumView of number view v ends with the number at
\* another value n, lib.rs:248-251.  The view shows it when no number is armed
\* and the slot holds a literal, lib.rs:337-345.
EditLiteral(v, n) ==
    LET st1 == SetNumberSlot(steps, "steps", v.sig, NumT(n))
    IN /\ Handler("EditLiteral", v.sig)
       /\ infer_target.kind # "Number"
       /\ v.val.tag = "T"
       /\ v.val.v # n
       /\ steps' = st1
       /\ datas' = SetNumberSlot(datas, "datas", v.sig, NumT(n))
       /\ Redrawn(IF v.sig[1] = "steps"
                  THEN Redraw(st1, snap_points, infer_target, mouse_pos,
                              hover_infer_target)
                  ELSE NoRedraw)
       /\ UNCHANGED <<infer_target, mouse_pos, snap_points, issued>>

\* context_infer_target.set(target) and the effect's run
SetInferTarget(target) ==
    /\ infer_target' = target
    /\ Redrawn(Redraw(steps, snap_points, target, mouse_pos, hover_infer_target))
    /\ UNCHANGED <<steps, datas, mouse_pos, snap_points, issued>>

\* An "Infer" button that leaves a target that is already armed in place
ArmPointKeepsPrior(i, field) ==
    /\ Handler("ArmPoint", <<steps[i].sig, field>>)
    /\ field \in Fields(steps[i])
    /\ \/ [i |-> i, field |-> field] \in OpenPointViews(steps, infer_target)
       \/ steps[i].kind = "DrawLine" /\ steps[i][field].tag = "Ref"
    /\ SetInferTarget(IF infer_target.kind # "None"
                      THEN infer_target
                      ELSE TargetPoint(<<steps[i].sig, field>>))

\* The "Infer" button of point slot `field` of step i: of an open point view,
\* lib.rs:404-408, or of a line's slot that holds a reference, lib.rs:430-434
ArmPoint(i, field) ==
    /\ Handler("ArmPoint", <<steps[i].sig, field>>)
    /\ field \in Fields(steps[i])
    /\ \/ [i |-> i, field |-> field] \in OpenPointViews(steps, infer_target)
       \/ steps[i].kind = "DrawLine" /\ steps[i][field].tag = "Ref"
    /\ SetInferTarget(TargetPoint(<<steps[i].sig, field>>))

\* The "I" button of number view v, lib.rs:341-343
ArmNumber(v) ==
    /\ Handler("ArmNumber", v.sig)
    /\ infer_target.kind # "Number"
    /\ v.val.tag = "T"
    /\ SetInferTarget(TargetNumber(v.sig))

\* Whether a "Cancel Infer" button is on screen, lib.rs:369-385: only
\* InnerStepViewDrawPoint has one, and a point slot is shown by that view when
\* it holds a literal (lib.rs:421-424); a slot that holds a reference shows
\* its path and "Infer" (lib.rs:426-437)
CancelPointShown ==
    /\ infer_target.kind = "Point"
    /\ \E i \in 1..Len(steps) :
        /\ steps[i].sig = infer_target.sig[1]
        /\ steps[i][infer_target.sig[2]].tag = "T"

\* Whether a "C" button is on screen, lib.rs:309-321: the armed number's own
\* view has it, when that view is shown
CancelNumberShown ==
    /\ infer_target.kind = "Number"
    /\ \E v \in NumberViews(steps, datas, infer_target) : v.sig = infer_target.sig

\* "Cancel Infer", lib.rs:376-378
CancelPoint ==
    /\ Handler("CancelPoint", <<>>)
    /\ CancelPointShown
    /\ SetInferTarget(NoTarget)

\* A "C" button that also puts the literal 0 in the armed number, as the
\* disabled code of lib.rs:350-354 would
CancelNumberResets ==
    LET st1 == SetNumberSlot(steps, "steps", infer_target.sig, NumT(0))
    IN /\ Handler("CancelNumber", <<>>)
       /\ CancelNumberShown
       /\ steps' = st1
       /\ datas' = SetNumberSlot(datas, "datas", infer_target.sig, NumT(0))
       /\ infer_target' = NoTarget
       /\ Redrawn(Redraw(st1, snap_points, NoTarget, mouse_pos, hover_infer_target))
       /\ UNCHANGED <<mouse_pos, snap_points, issued>>

\* "C", lib.rs:314-316: shown in place of the armed number's view
CancelNumber ==
    /\ Handler("CancelNumber", <<>>)
    /\ CancelNumberShown
    /\ SetInferTarget(NoTarget)

\* it.set(val) on the armed slot with r1 the effect's run it causes, then
\* context_infer_target.set(None) and the effect's run, lib.rs:326-327 and
\* 653-654
WriteArmedSlotThen(st1, dt1, r1) ==
    /\ steps' = st1
    /\ datas' = dt1
    /\ IF r1.panic # "none"
       THEN /\ infer_target' = infer_target
            /\ Redrawn(r1)
       ELSE /\ infer_target' = NoTarget
            /\ Redrawn(Redraw(st1, snap_points, NoTarget, mouse_pos, r1.hover))
    /\ UNCHANGED <<mouse_pos, snap_points, issued>>

\* The effect runs on it.set(val) if a step in the vector owns the slot
WriteArmedSlot(st1, dt1, key) ==
    WriteArmedSlotThen(st1, dt1,
        IF Subscribed(steps, key)
        THEN Redraw(st1, snap_points, infer_target, mouse_pos, hover_infer_target)
        ELSE NoRedraw)

\* "O" of number view v, lib.rs:325-328: shown by every number view but the
\* armed one while a number is armed
BindNumber(v) ==
    /\ Handler("BindNumber", v.sig)
    /\ infer_target.kind = "Number"
    /\ v.sig # infer_target.sig
    /\ WriteArmedSlot(SetNumberSlot(steps, "steps", infer_target.sig, Ref(v.path)),
                      SetNumberSlot(datas, "datas", infer_target.sig, Ref(v.path)),
                      IF infer_target.sig[1] = "steps" THEN infer_target.sig[2] ELSE -1)

\* mousemove_callback with the pointer at another position p, lib.rs:631-640:
\* the effect reads mouse_pos only while a target is armed, lib.rs:720-724
MouseMove(p) ==
    /\ Handler("MouseMove", <<>>)
    /\ p # mouse_pos
    /\ mouse_pos' = p
    /\ Redrawn(IF infer_target.kind # "None"
               THEN Redraw(steps, snap_points, infer_target, p, hover_infer_target)
               ELSE NoRedraw)
    /\ UNCHANGED <<steps, datas, infer_target, snap_points, issued>>

\* A pointer-down that, with no point armed, writes the hover candidate into
\* the first point slot of the first step
MouseDownWritesWhenIdle ==
    LET sig == IF infer_target.kind = "Point" THEN infer_target.sig
               ELSE IF Len(steps) > 0
                    THEN <<steps[1].sig,
                           IF steps[1].kind = "DrawPoint" THEN "point" ELSE "start">>
                    ELSE <<-1, "point">>
    IN /\ Handler("MouseDown", <<>>)
       /\ IF infer_target.kind # "Number"
          THEN WriteArmedSlot(SetPointSlot(steps, sig, hover_infer_target),
                              datas, sig[1])
          ELSE UNCHANGED <<steps, datas, infer_target, mouse_pos,
                           hover_infer_target, snap_points, panicked, issued>>

\* mousedown_callback, lib.rs:647-656
MouseDown ==
    /\ Handler("MouseDown", <<>>)
    /\ IF infer_target.kind = "Point"
       THEN WriteArmedSlot(SetPointSlot(steps, infer_target.sig, hover_infer_target),
                           datas, infer_target.sig[1])
       ELSE UNCHANGED <<steps, datas, infer_target, mouse_pos,
                        hover_infer_target, snap_points, panicked, issued>>

Next ==
    \/ AddDrawLineStep
    \/ AddDrawPointStep
    \/ \E i \in 1..Len(steps) : RemoveStep(i)
    \/ AddNumberData
    \/ AddPointData
    \/ \E i \in 1..Len(datas) : RemoveData(i)
    \/ \E v \in NumberViews(steps, datas, infer_target), n \in EditValues : EditLiteral(v, n)
    \/ \E i \in 1..Len(steps), field \in {"point", "start", "end"} : ArmPoint(i, field)
    \/ \E v \in NumberViews(steps, datas, infer_target) : ArmNumber(v)
    \/ CancelPoint
    \/ CancelNumber
    \/ \E v \in NumberViews(steps, datas, infer_target) : BindNumber(v)
    \/ \E p \in MousePositions : MouseMove(p)
    \/ MouseDown

Spec == Init /\ [][Next]_vars

----------------------------------------------------------------------------
\* The claims.

\* C1: no two steps of the step list have the same id, and an id once given
\* to a step is never given to a step added later.
C1_IdsUniqueNeverReused ==
    /\ \A i, j \in 1..Len(steps) : i # j => steps[i].id # steps[j].id
    /\ \A i, j \in 1..Len(issued) : i # j => issued[i] # issued[j]

\* C2: after the removal of a step, a slot that refers to an anchor of a step
\* no longer in the list resolves to a failure value, not to an abort, and
\* the redraw completes.
C2_DanglingRefRedrawCompletes ==
    \A i \in 1..Len(steps) : \A f \in Fields(steps[i]) :
        (/\ op.name = "RemoveStep"
         /\ steps[i][f].tag = "Ref"
         /\ FindStep(steps, steps[i][f].path[2]) = 0)
        => /\ ResolvePointValue(steps, steps[i][f]).err # PanicInvalidStepId
           /\ panicked = "none"

\* C3: a pointer-down while a point slot of step C is armed and the pointer
\* is nearer than the threshold to the mid anchor of another step B, a line,
\* leaves the reference to step[B].mid in the slot and no target armed.
C3_InferCommitBindsMid ==
    [][\A b, c \in 1..Len(steps) :
        (/\ op'.name = "MouseDown"
         /\ infer_target.kind = "Point"
         /\ b # c
         /\ steps[c].sig = infer_target.sig[1]
         /\ steps[b].kind = "DrawLine"
         /\ LET m == ResolvePointRef(steps, <<"Step", steps[b].id, "mid">>)
            IN m.err = "none" /\ Near(m, mouse_pos))
        => /\ steps'[c][infer_target.sig[2]] = Ref(<<"Step", steps[b].id, "mid">>)
           /\ infer_target' = NoTarget]_vars

\* C4: arming a slot, moving the pointer and cancelling leave every slot of
\* every step and data as it was, and the cancel leaves no target armed.
C4_ArmCancelLeavesSlots ==
    [][op'.name \in {"ArmPoint", "ArmNumber", "MouseMove", "CancelPoint", "CancelNumber"}
        => /\ steps' = steps
           /\ datas' = datas
           /\ op'.name \in {"CancelPoint", "CancelNumber"}
                => infer_target' = NoTarget /\ panicked' = "none"]_vars

C4_Witness ==
    /\ op.name \in {"CancelPoint", "CancelNumber"}
    /\ op.armed
    /\ infer_target = NoTarget
    /\ mouse_pos # <<0, 0>>
    /\ \E i \in 1..Len(steps) : \E f \in Fields(steps[i]) :
        steps[i][f].tag = "T" /\ steps[i][f].x = NumT(8)

\* C5: the resolution of every stored slot and of every snap point
\* terminates: no chain of references comes back to a slot it went through.
C5_ResolutionTerminates ==
    /\ \A i \in 1..Len(steps) : \A f \in Fields(steps[i]) :
        ResolvePointValue(steps, steps[i][f]).err # PanicStackOverflow
    /\ \A k \in 1..Len(snap_points) :
        ResolvePointRef(steps, snap_points[k]).err # PanicStackOverflow

\* C6: while a target is armed, the hover candidate is a reference to a snap
\* point exactly when some snap point is at a distance strictly less than the
\* threshold from the pointer, and the free literal at the rounded pointer
\* position otherwise.
C6_HoverIsRefIffNear ==
    (infer_target.kind # "None" /\ panicked = "none")
    => LET hits == {k \in 1..Len(snap_points) :
                      DistSq(ResolvePointRef(steps, snap_points[k]), mouse_pos)
                          < (Threshold * Scale) ^ 2}
       IN /\ hover_infer_target.tag = "Ref" <=> hits # {}
          /\ hits # {} => \E k \in hits : hover_infer_target = Ref(snap_points[k])
          /\ hits = {} => /\ hover_infer_target.tag = "T"
                          /\ hover_infer_target.x.tag = "T"
                          /\ hover_infer_target.y.tag = "T"

C6_Witness ==
    /\ infer_target.kind # "None"
    /\ panicked = "none"
    /\ hover_infer_target.tag = "T"
    /\ \E k \in 1..Len(snap_points) :
        DistSq(ResolvePointRef(steps, snap_points[k]), mouse_pos)
            = (Threshold * Scale) ^ 2

\* C7: a pointer-down while any slot is armed, a point slot or a number slot,
\* writes the hover candidate into the armed slot and leaves no target armed.
C7_PointerDownCommitsEverySlot ==
    [][(op'.name = "MouseDown" /\ infer_target.kind # "None")
        => /\ infer_target' = NoTarget
           /\ infer_target.kind = "Point"
                => \A i \in 1..Len(steps) :
                     steps[i].sig = infer_target.sig[1]
                     => steps'[i][infer_target.sig[2]] = hover_infer_target
           /\ infer_target.kind = "Number"
                => /\ \A i \in 1..Len(steps) :
                        (infer_target.sig[1] = "steps" /\ steps[i].sig = infer_target.sig[2])
                        => steps'[i][infer_target.sig[3]][infer_target.sig[4]]
                             = hover_infer_target
                   /\ \A i \in 1..Len(datas) :
                        (infer_target.sig[1] = "datas" /\ datas[i].sig = infer_target.sig[2])
                        => datas'[i][infer_target.sig[3]][infer_target.sig[4]]
                             = hover_infer_target]_vars

\* C8: at most one slot is the armed target: arming a slot makes it the
\* target in place of any slot armed before, and changes no slot's value.
C8_ArmReplacesTarget ==
    [][op'.name \in {"ArmPoint", "ArmNumber"}
        => /\ infer_target' = (IF op'.name = "ArmPoint"
                               THEN TargetPoint(op'.arg)
                               ELSE TargetNumber(op'.arg))
           /\ steps' = steps
           /\ datas' = datas]_vars

C8_Witness ==
    /\ op.name = "ArmPoint"
    /\ op.armed
    /\ infer_target = TargetPoint(op.arg)
    /\ panicked = "none"

\* C9: the snap index holds one entry for each DrawPoint step and three for
\* each DrawLine step, in step order; adding a line adds three entries,
\* adding a point adds one, and removing a step removes that step's entries
\* and no others.
C9_SnapIndexFollowsSteps ==
    [][/\ snap_points' = SnapPointsMemo(steps')
       /\ Len(snap_points') =
            Cardinality({i \in 1..Len(steps') : steps'[i].kind = "DrawPoint"})
            + 3 * Cardinality({i \in 1..Len(steps') : steps'[i].kind = "DrawLine"})
       /\ op'.name = "AddDrawLineStep" => Len(snap_points') = Len(snap_points) + 3
       /\ op'.name = "AddDrawPointStep" => Len(snap_points') = Len(snap_points) + 1
       /\ op'.name = "RemoveStep"
            => snap_points' =
                 SnapPointsMemo(SubSeq(steps, 1, op'.arg[1] - 1)
                                \o SubSeq(steps, op'.arg[1] + 1, Len(steps)))]_vars

\* C10: the snap index changes only when a step is added or removed: edits,
\* arming, cancelling, commits, pointer moves and data changes leave it as
\* it is.
C10_SnapIndexChangesOnlyWithSteps ==
    [][op'.name \notin {"AddDrawLineStep", "AddDrawPointStep", "RemoveStep"}
        => snap_points' = snap_points]_vars

C10_Witness ==
    /\ op.name = "MouseDown"
    /\ op.armed
    /\ panicked = "none"
    /\ infer_target = NoTarget
    /\ Len(snap_points) > 0
    /\ \E i \in 1..Len(steps) : \E f \in Fields(steps[i]) : steps[i][f].tag = "Ref"

\* C11: a point slot that holds the reference to step[B].end, where B is a
\* line whose end is a literal, resolves to that literal; after an edit of
\* B's end the slot resolves to the new value, and the edit leaves the
\* slot's stored value as it was.
C11_RefFollowsEndEdits ==
    [][\A a \in 1..Len(steps') : \A f \in Fields(steps'[a]) :
        LET v == steps'[a][f]
            b == IF v.tag = "Ref" THEN FindStep(steps', v.path[2]) ELSE 0
        IN (/\ v.tag = "Ref"
            /\ Len(v.path) = 3
            /\ v.path[3] = "end"
            /\ b # 0
            /\ steps'[b].kind = "DrawLine"
            /\ steps'[b].end.tag = "T"
            /\ steps'[b].end.x.tag = "T"
            /\ steps'[b].end.y.tag = "T")
           => /\ ResolvePointValue(steps', v)
                    = Ok(steps'[b].end.x.v * Scale, steps'[b].end.y.v * Scale)
              /\ op'.name = "EditLiteral" => v = steps[a][f]]_vars

C13_LiteralRoundTrip ==
    \A i \in 1..Len(steps) : \A f \in Fields(steps[i]) :
        (/\ steps[i][f].tag = "T"
         /\ steps[i][f].x.tag = "T"
         /\ steps[i][f].y.tag = "T")
        => ResolvePointValue(steps, steps[i][f])
             = [err |-> "none",
                x |-> steps[i][f].x.v * Scale,
                y |-> steps[i][f].y.v * Scale]

C13_Witness ==
    /\ op.name = "MouseDown"
    /\ op.armed
    /\ \E i \in 1..Len(steps) : \E f \in Fields(steps[i]) :
        /\ steps[i][f] = PointT(NumT(5), NumT(0))
        /\ ResolvePointValue(steps, steps[i][f]) = Ok(5 * Scale, 0)

\* C14: a path whose property name is not valid for the kind of the step it
\* selects ("self" on a line, "start", "mid" or "end" on a point) resolves
\* to a failure value, not to an abort, and the redraw completes: no
\* reachable state has the redraw aborted on such a path.
C14_InvalidPropRedrawCompletes ==
    LET paths == {snap_points[k] : k \in 1..Len(snap_points)}
                 \cup UNION {{steps[i][f].path : f \in {g \in Fields(steps[i]) :
                                                           steps[i][g].tag = "Ref"}} :
                             i \in 1..Len(steps)}
    IN \A path \in paths :
        LET i == FindStep(steps, path[2])
        IN (/\ i # 0
            /\ Len(path) = 3
            /\ IF steps[i].kind = "DrawPoint"
               THEN path[3] # "self"
               ELSE path[3] \notin {"start", "mid", "end"})
           => /\ ResolvePointRef(steps, path).err # PanicInvalidProp
              /\ panicked = "none"

\* C15: a number slot that is armed and then bound to the x or y coordinate
\* of a data point resolves to the value of that coordinate, as a slot bound
\* to a coordinate of a step does, and the program goes on.
C15_BoundToDataResolves ==
    [][\A j \in 1..Len(datas) :
        (/\ op'.name = "BindNumber"
         /\ op'.arg[1] = "datas"
         /\ datas[j].sig = op'.arg[2]
         /\ datas[j].kind = "Point"
         /\ datas[j].point[op'.arg[4]].tag = "T")
        => /\ Resolve(steps', ReqNumberRef(<<"Data", datas[j].id, op'.arg[4]>>), {})
                = Ok(datas[j].point[op'.arg[4]].v * Scale, 0)
           /\ panicked' = "none"]_vars

\* C16: from every state in which a slot (a point slot of a step, or a
\* number coordinate) holds a reference, some sequence of user actions
\* leaves a literal in it again.  Stated by what such a sequence needs at
\* its start: while the program runs and handlers can still run within the
\* depth explored, the slot, or the point slot that contains it, is armed or
\* can be armed.
C16_ReferenceCanBecomeLiteral ==
    (panicked = "none" /\ nops < MaxOps)
    => /\ \A i \in 1..Len(steps) : \A f \in Fields(steps[i]) :
            (\/ steps[i][f].tag = "Ref"
             \/ \E c \in {"x", "y"} : steps[i][f][c].tag = "Ref")
            => \/ infer_target = TargetPoint(<<steps[i].sig, f>>)
               \/ ENABLED ArmPoint(i, f)
       /\ \A j \in 1..Len(datas) : \A c \in {"x", "y"} :
            (datas[j].kind = "Point" /\ datas[j].point[c].tag = "Ref")
            => ENABLED (\E v \in NumberViews(steps, datas, infer_target) :
                          /\ v.sig = <<"datas", datas[j].sig, "point", c>>
                          /\ ArmNumber(v))

\* C17: whenever the point slot of a DrawPoint step holds a reference that
\* resolves, the redraw completes (and draws the point where the referenced
\* anchor is).
C17_BoundPointIsDrawn ==
    \A i \in 1..Len(steps) :
        (/\ steps[i].kind = "DrawPoint"
         /\ steps[i].point.tag = "Ref"
         /\ ResolvePointValue(steps, steps[i].point).err = "none")
        => /\ DrawStep([q \in {ReqPointValue(steps[i].point)} |->
                           ResolvePointValue(steps, steps[i].point)], steps, i)
                = ResolvePointValue(steps, steps[i].point)
           /\ panicked = "none"

\* C18: the start anchor of a line depends on its start slot only and the
\* end anchor on its end slot only: when the start slot of line L holds the
\* reference to L's own end and L's end is a literal, resolving L's start
\* and redrawing L terminate with the value of L's end.
C18_OwnEndResolves ==
    \A i \in 1..Len(steps) :
        (/\ steps[i].kind = "DrawLine"
         /\ FindStep(steps, steps[i].id) = i
         /\ steps[i].start = Ref(<<"Step", steps[i].id, "end">>)
         /\ steps[i].end.tag = "T"
         /\ steps[i].end.x.tag = "T"
         /\ steps[i].end.y.tag = "T")
        => /\ ResolvePointValue(steps, steps[i].start)
                = Ok(steps[i].end.x.v * Scale, steps[i].end.y.v * Scale)
           /\ panicked = "none"

\* C19: when several snap points are nearer than the threshold to the
\* pointer during an armed redraw, the hover candidate is the reference to
\* the last of them in index order, even when an earlier one is strictly
\* nearer to the pointer.
C19_LastHitWins ==
    (infer_target.kind # "None" /\ panicked = "none")
    => LET d == [k \in 1..Len(snap_points) |->
                   DistSq(ResolvePointRef(steps, snap_points[k]), mouse_pos)]
           within == {k \in 1..Len(snap_points) : d[k] < (Threshold * Scale) ^ 2}
       IN within # {}
          => \E m \in within :
                /\ \A k \in within : k <= m
                /\ hover_infer_target = Ref(snap_points[m])

C19_Witness ==
    /\ infer_target.kind # "None"
    /\ panicked = "none"
    /\ LET d == [k \in 1..Len(snap_points) |->
                   DistSq(ResolvePointRef(steps, snap_points[k]), mouse_pos)]
           within == {k \in 1..Len(snap_points) : d[k] < (Threshold * Scale) ^ 2}
       IN \E m \in within :
            /\ \A k \in within : k <= m
            /\ hover_infer_target = Ref(snap_points[m])
            /\ \E k \in within : k < m /\ d[k] < d[m]
            /\ \A k \in within : k < m => snap_points[k] # snap_points[m]

\* C20: when a number slot S of a step is armed and the bind button of a
\* coordinate of a line's literal end point is pressed, S holds a reference
\* that names the end point and resolves to that coordinate of the end
\* point; likewise for the start point, under a different path.
C20_BindLineEndpoint ==
    [][\A j, i \in 1..Len(steps) :
        (/\ op'.name = "BindNumber"
         /\ op'.arg[1] = "steps"
         /\ op'.arg[3] \in {"start", "end"}
         /\ steps[j].sig = op'.arg[2]
         /\ FindStep(steps, steps[j].id) = j
         /\ steps[j][op'.arg[3]][op'.arg[4]].tag = "T"
         /\ infer_target.sig[1] = "steps"
         /\ steps[i].sig = infer_target.sig[2]
         /\ i # j)
        => LET written == steps'[i][infer_target.sig[3]][infer_target.sig[4]]
           IN /\ written.tag = "Ref"
              /\ written.path = <<"Step", steps[j].id, op'.arg[3], op'.arg[4]>>
              /\ Resolve(steps', ReqNumberRef(written.path), {})
                   = Ok(steps[j][op'.arg[3]][op'.arg[4]].v * Scale, 0)]_vars

\* C21 as the spec states it: when no snap point is nearer than the
\* threshold during an armed redraw, the hover candidate is the literal
\* point at the pointer's own coordinates, not rounded.  (mouse_pos is in
\* half units.)
C21_FreeHoverIsCursor ==
    (/\ infer_target.kind # "None"
     /\ panicked = "none"
     /\ \A k \in 1..Len(snap_points) :
          DistSq(ResolvePointRef(steps, snap_points[k]), mouse_pos)
              >= (Threshold * Scale) ^ 2)
    => /\ hover_infer_target.tag = "T"
       /\ hover_infer_target.x.tag = "T"
       /\ hover_infer_target.y.tag = "T"
       /\ 2 * hover_infer_target.x.v = mouse_pos[1]
       /\ 2 * hover_infer_target.y.v = mouse_pos[2]

\* C21 amended: when no snap point is nearer than the threshold during an
\* armed redraw, the hover candidate is the literal point at the pointer's
\* coordinates rounded to the nearest integers, halves going up.
C21_FreeHoverIsRoundedCursor ==
    (/\ infer_target.kind # "None"
     /\ panicked = "none"
     /\ \A k \in 1..Len(snap_points) :
          DistSq(ResolvePointRef(steps, snap_points[k]), mouse_pos)
              >= (Threshold * Scale) ^ 2)
    => /\ hover_infer_target.tag = "T"
       /\ hover_infer_target.x.tag = "T"
       /\ hover_infer_target.y.tag = "T"
       /\ 2 * hover_infer_target.x.v - 1 <= mouse_pos[1]
       /\ mouse_pos[1] < 2 * hover_infer_target.x.v + 1
       /\ 2 * hover_infer_target.y.v - 1 <= mouse_pos[2]
       /\ mouse_pos[2] < 2 * hover_infer_target.y.v + 1

C21_Witness ==
    /\ infer_target.kind # "None"
    /\ panicked = "none"
    /\ Len(snap_points) > 0
    /\ \A k \in 1..Len(snap_points) :
          DistSq(ResolvePointRef(steps, snap_points[k]), mouse_pos)
              >= (Threshold * Scale) ^ 2
    /\ mouse_pos = <<11, 0>>
    /\ hover_infer_target = PointT(NumT(6), NumT(0))

\* C22: removing a step removes that one step and no other: the list is one
\* shorter, and the other steps keep their order, ids and stored values.
C22_RemoveOneStep ==
    [][op'.name = "RemoveStep"
        => /\ Len(steps') = Len(steps) - 1
           /\ steps' = SubSeq(steps, 1, op'.arg[1] - 1)
                       \o SubSeq(steps, op'.arg[1] + 1, Len(steps))]_vars

\* C23: every entry of the snap index resolves against the step that
\* produced it: the paths of the index are pairwise distinct, and the path
\* produced by a step selects that step, not another one.
C23_IndexPathsSelectOwnStep ==
    /\ \A k, l \in 1..Len(snap_points) :
         k # l => snap_points[k] # snap_points[l]
    /\ \A i \in 1..Len(steps) :
         \A k \in 1..Len(StepSnapPoints(steps[i])) :
            FindStep(steps, StepSnapPoints(steps[i])[k][2]) = i

\* C24: a pointer-down on the canvas while no target is armed changes
\* nothing: the steps and their stored values, the datas, the infer state,
\* the snap index and the hover candidate are the same before and after,
\* whatever hover candidate an earlier armed phase left behind.
C24_IdlePointerDownChangesNothing ==
    [][(op'.name = "MouseDown" /\ infer_target = NoTarget)
        => /\ steps' = steps
           /\ datas' = datas
           /\ infer_target' = NoTarget
           /\ hover_infer_target' = hover_infer_target
           /\ snap_points' = snap_points
           /\ panicked' = panicked]_vars

\* A pointer-down has run with nothing armed while the hover candidate left
\* by an earlier armed phase is a reference and steps exist.
C24_Witness ==
    /\ op.name = "MouseDown"
    /\ ~op.armed
    /\ panicked = "none"
    /\ infer_target = NoTarget
    /\ Len(steps) > 0
    /\ hover_infer_target.tag = "Ref"

\* C25: in every running state with an armed infer target the cancel button
\* of the armed slot is available, also when the armed slot is a line
\* endpoint that holds a reference: no armed state can be left only by
\* committing or by arming another slot.
C25_ArmedCanBeCancelled ==
    (infer_target.kind # "None" /\ panicked = "none")
        => (CancelPointShown \/ CancelNumberShown)

====
